---- MODULE Spec2Model ----
(***************************************************************************)
(* A model of instantiate.py: project-number inference over the listing of *)
(* the working directory, and the copy-and-render pipeline of make_project *)
(* as driven by cli.                                                       *)
(*                                                                         *)
(* Names (directory entries, skip patterns) are sequences of one-character *)
(* strings.  A path below the destination directory is a sequence of       *)
(* names.  An optional value (Python's None) is the empty set, a present   *)
(* value v is {v}.                                                         *)
(***************************************************************************)
EXTENDS Integers, Sequences, FiniteSets, TLC

VARIABLES
    cwd,          \* listing of the working directory: name -> entry
    template,     \* the template tree on disk: a set of nodes
    no_replace,   \* optional set of fnmatch patterns (--no-replace)
    contextFile,  \* optional configuration file (--context)
    pc,           \* "idle": no invocation running; "replace": inside replace's loop
    call,         \* arguments and locals of the running (or last) invocation
    variables,    \* the variable mapping handed to render: the set of key paths that resolve
    queue,        \* replace's work queue of directories (paths below the destination)
    pending,      \* entries of current_directory the for loop has not reached yet
    renderLog,    \* paths passed to render by the running (or last) invocation, in order
    popLog,       \* directories dequeued by the running (or last) invocation, in order
    result,       \* how the last invocation ended, as seen by cli's caller
    history       \* one record per invocation started so far

vars == <<cwd, template, no_replace, contextFile, pc, call, variables, queue,
          pending, renderLog, popLog, result, history>>

----------------------------------------------------------------------------
(* Bounds of the model. *)

MaxNameLen == 2      \* longest name in a generated directory listing
MaxListing == 2      \* most entries in a generated directory listing
MaxWidth == 1        \* largest numbering width k
MaxEntries == 3      \* most nodes in a generated template tree
MaxPatterns == 1     \* most patterns in a generated skip-pattern set
MaxCalls == 2        \* most invocations of cli in one behaviour

----------------------------------------------------------------------------
(* Optional values. *)

None == {}
Some(x) == {x}
The(opt) == CHOOSE x \in opt : TRUE

Last(s) == s[Len(s)]

RECURSIVE SubsetsUpTo(_, _)
SubsetsUpTo(S, n) ==
    IF n = 0 THEN {{}}
    ELSE LET smaller == SubsetsUpTo(S, n - 1)
         IN  smaller \cup {s \cup {x} : s \in smaller, x \in S}

----------------------------------------------------------------------------
(* Characters.  str.isdigit() is true of the ten decimal digits and also   *)
(* of digit characters that are not decimal, such as SUPERSCRIPT TWO; int()*)
(* accepts only the decimal ones.                                          *)

DecimalChars == <<"0", "1", "2", "3", "4", "5", "6", "7", "8", "9">>

IsDecimal(c) == \E i \in 1..Len(DecimalChars) : DecimalChars[i] = c

SuperscriptTwo == "sup2"

isdigit(c) == IsDecimal(c) \/ c = SuperscriptTwo

DigitValue(c) == (CHOOSE i \in 1..Len(DecimalChars) : DecimalChars[i] = c) - 1

\* int(s) for a string s of isdigit characters: {} stands for ValueError.
RECURSIVE IntOfDigits(_, _)
IntOfDigits(s, acc) ==
    IF s = <<>> THEN Some(acc)
    ELSE IF ~IsDecimal(Head(s)) THEN None
    ELSE IntOfDigits(Tail(s), 10 * acc + DigitValue(Head(s)))

int(s) == IF s = <<>> THEN None ELSE IntOfDigits(s, 0)

RECURSIVE DecimalString(_)
DecimalString(n) ==
    IF n < 10 THEN <<DecimalChars[n + 1]>>
    ELSE DecimalString(n \div 10) \o <<DecimalChars[(n % 10) + 1]>>

RECURSIVE ZeroPad(_, _)
ZeroPad(s, k) == IF Len(s) >= k THEN s ELSE ZeroPad(<<"0">> \o s, k)

\* format(number, "0" + str(k)): at least k characters, zero-filled on the left.
format(number, k) == ZeroPad(DecimalString(number), k)

Max(S) == CHOOSE m \in S : \A x \in S : x <= m

----------------------------------------------------------------------------
(* Project-number inference. *)

_starts_with_k_digits(s, k) ==
    IF Len(s) < k THEN FALSE
    ELSE \A i \in 1..k : isdigit(s[i])

Directories(listing) == {n \in DOMAIN listing : listing[n].kind = "dir"}

\* A plausible slip: the largest number in use is returned again.
NextNumberStuck(numbers) == IF numbers = {} THEN 1 ELSE Max(numbers)

\* "if not numbers: number = 1 / else: number = max(numbers) + 1"
NextNumber(numbers) == IF numbers = {} THEN 1 ELSE Max(numbers) + 1

\* The value returned, [raised |-> FALSE, value |-> optional string], or
\* [raised |-> TRUE] when int() raises ValueError.
infer_next_project_number(listing, numbering) ==
    IF numbering = None THEN [raised |-> FALSE, value |-> None]
    ELSE LET k == The(numbering)
             numbered_directories ==
                 {d \in Directories(listing) : _starts_with_k_digits(d, k)}
             parsed == {int(SubSeq(d, 1, k)) : d \in numbered_directories}
         IN  IF None \in parsed THEN [raised |-> TRUE]
             ELSE LET numbers == {The(p) : p \in parsed}
                      number == NextNumber(numbers)
                  IN  [raised |-> FALSE, value |-> Some(format(number, k))]

----------------------------------------------------------------------------
(* Skip patterns: fnmatch.fnmatch(name, pattern) over the characters "*"   *)
(* (any run of characters), "?" (any one character) and literals; the      *)
(* patterns drawn below hold no character class.                           *)

RECURSIVE fnmatch(_, _)
fnmatch(name, pattern) ==
    IF pattern = <<>> THEN name = <<>>
    ELSE IF Head(pattern) = "*"
         THEN fnmatch(name, Tail(pattern))
              \/ (name # <<>> /\ fnmatch(Tail(name), pattern))
    ELSE /\ name # <<>>
         /\ (Head(pattern) = "?" \/ Head(pattern) = Head(name))
         /\ fnmatch(Tail(name), Tail(pattern))

\* replace: "if no_replace is None: no_replace = []".
PatternsOf(opt) == IF opt = None THEN {} ELSE The(opt)

\* A plausible slip: the pattern is matched against the first component of
\* the path below the destination instead of the base name.
ShouldBeSkippedByFirstComponent(path, patterns) ==
    \E pattern \in patterns : fnmatch(Head(path), pattern)

\* _should_be_skipped(path): any pattern matches path.name, the base name.
_should_be_skipped(path, patterns) ==
    \E pattern \in patterns : fnmatch(Last(path), pattern)

\* A plausible slip: only files are skipped, a matching directory is entered.
VisitDescending(path, kind, patterns) ==
    IF kind = "dir" THEN "enqueue"
    ELSE IF _should_be_skipped(path, patterns) THEN "skip"
    ELSE "render"

\* The body of replace's for loop: what is done with one subpath.
Visit(path, kind, patterns) ==
    IF _should_be_skipped(path, patterns) THEN "skip"
    ELSE IF kind = "file" THEN "render"
    ELSE IF kind = "dir" THEN "enqueue"
    ELSE "skip"

----------------------------------------------------------------------------
(* Trees.  A node is [path, kind, refs]: refs are the variable references  *)
(* of a file's template text; a node of a destination tree also has       *)
(* content: "template" as copied, "rendered" once written by render,       *)
(* "truncated" when render opened it for writing and then failed.          *)

Paths(tree) == {n.path : n \in tree}

NodeAt(tree, p) == CHOOSE n \in tree : n.path = p

\* A plausible slip: a recursive listing (rglob) in place of iterdir.
ListRecursively(tree, d) ==
    {p \in Paths(tree) : Len(p) > Len(d) /\ SubSeq(p, 1, Len(d)) = d}

\* current_directory.iterdir(): the immediate children of directory d.
iterdir(tree, d) ==
    {p \in Paths(tree) : Len(p) = Len(d) + 1 /\ SubSeq(p, 1, Len(d)) = d}

\* A plausible slip: copytree(..., dirs_exist_ok=True) never refuses.
NeverExists(listing, name) == FALSE

\* shutil.copytree raises FileExistsError when dst_dir is already there.
DestinationExists(listing, name) == name \in DOMAIN listing

\* shutil.copytree(template_dir, dst_dir): the new directory entry.
copytree(tree) ==
    [kind |-> "dir",
     tree |-> {[path |-> n.path, kind |-> n.kind, refs |-> n.refs,
                content |-> "template"] : n \in tree}]

\* The tree with the file at p given new content.
WriteFile(tree, p, c) ==
    {IF n.path = p THEN [n EXCEPT !.content = c] ELSE n : n \in tree}

----------------------------------------------------------------------------
(* The variable mapping, as the set of key paths that resolve in it.       *)

\* cli: context = {}; context[args.context.stem] = yaml.load(...)
LoadContext(file) ==
    IF file = None THEN {}
    ELSE {<<The(file).stem>> \o key : key \in The(file).keys}

\* A plausible slip: the context is merged flatly, {**context, "project": ...}.
MakeVariablesFlat(context) ==
    context \cup {<<"project", "number">>, <<"project", "name">>}

\* make_project: variables = {"context": context, "project": {number, name}}
MakeVariables(context) ==
    {<<"context">> \o key : key \in context}
        \cup {<<"project", "number">>, <<"project", "name">>}

\* A plausible slip: jinja2's default Undefined, which renders a blank.
RenderLenient(refs, vs) == TRUE

\* render with jinja2.StrictUndefined: succeeds iff every reference resolves.
RenderSucceeds(refs, vs) == refs \subseteq vs

----------------------------------------------------------------------------
(* cli's exception handling.                                               *)

RemoveEntry(listing, name) ==
    [n \in (DOMAIN listing) \ {name} |-> listing[n]]

\* except Exception: if (cwd / project_name).exists(): shutil.rmtree(...)
\* rmtree of a regular file raises NotADirectoryError and removes nothing.
CleanupListing(listing, project_name) ==
    IF project_name \in DOMAIN listing /\ listing[project_name].kind = "dir"
    THEN RemoveEntry(listing, project_name)
    ELSE listing

CleanupOutcome(listing, project_name, exc) ==
    IF project_name \in DOMAIN listing /\ listing[project_name].kind # "dir"
    THEN "NotADirectoryError"
    ELSE exc

\* The record of a finished invocation.
Finished(c, outcome, reraised, error_path) ==
    [project_name |-> c.project_name, numbering |-> c.numbering,
     template_dir |-> c.template_dir, project_number |-> c.project_number,
     dst_name |-> c.dst_name, created |-> c.created,
     outcome |-> outcome, reraised |-> reraised, error_path |-> error_path]

----------------------------------------------------------------------------
(* Inputs. *)

ProjectNames == {<<"x">>, <<"y">>}

TemplateDirs == {"template", "dne"}

Numberings == {None} \cup {Some(k) : k \in 1..MaxWidth}

TemplateNames == {<<"b">>, <<"a", ".", "p">>, <<"c">>}

Patterns == {<<"b">>, <<"*", ".", "p">>, <<"?">>}

\* References a template file may make: project.name always resolves,
\* context.course.instructor and course.instructor depend on the mapping.
ProjectRefs == {{<<"project", "name">>}, {<<"course", "instructor">>}}

ContextRefs == ProjectRefs \cup {{<<"context", "course", "instructor">>}}

Labels(refChoices) ==
    {[kind |-> "dir", refs |-> {}]}
        \cup {[kind |-> "file", refs |-> r] : r \in refChoices}

DirPaths(tree) == {<<>>} \cup {n.path : n \in {m \in tree : m.kind = "dir"}}

Extensions(tree, labels) ==
    {tree \cup {[path |-> Append(t[1], t[2]), kind |-> t[3].kind, refs |-> t[3].refs]} :
        t \in {u \in DirPaths(tree) \X TemplateNames \X labels :
                  Append(u[1], u[2]) \notin Paths(tree)}}

\* Every template tree of at most n nodes.
RECURSIVE TreesUpTo(_, _)
TreesUpTo(n, labels) ==
    IF n = 0 THEN {{}}
    ELSE LET smaller == TreesUpTo(n - 1, labels)
         IN  smaller \cup UNION {Extensions(t, labels) : t \in smaller}

PatternSets == {None} \cup {Some(ps) : ps \in SubsetsUpTo(Patterns, MaxPatterns)}

ContextFiles ==
    {None, Some([stem |-> "course", keys |-> {<<"instructor">>, <<"name">>}])}

EntryKinds == {[kind |-> "dir", tree |-> {}], [kind |-> "file", tree |-> {}]}

\* Every listing of at most `most` of the given names, each a directory or a file.
ListingsOver(names, most) ==
    UNION {[present -> EntryKinds] : present \in SubsetsUpTo(names, most)}

RECURSIVE NamesUpTo(_, _)
NamesUpTo(alphabet, n) ==
    IF n = 0 THEN {<<>>}
    ELSE LET shorter == NamesUpTo(alphabet, n - 1)
         IN  shorter \cup {Append(s, c) : s \in shorter, c \in alphabet}

ListingAlphabet == {"0", "1", "9", "a", SuperscriptTwo}

ListingNames == NamesUpTo(ListingAlphabet, MaxNameLen) \ {<<>>}

\* Entries the working directory may hold before the first invocation.
InitNames == {<<"x">>, <<"9">>}

NoCall ==
    [project_name |-> <<>>, numbering |-> None, template_dir |-> "template",
     project_number |-> None, dst_name |-> None, created |-> FALSE]

NoResult == Finished(NoCall, "none", FALSE, None)

----------------------------------------------------------------------------
(* The command surface: cli, make_project and replace.                     *)

DstTree == cwd[The(call.dst_name)].tree

\* cli up to and including make_project's copytree: argument parsing,
\* context loading, the template check, number inference and the copy.
CliStart(template_dir, project_name, numbering) ==
    /\ pc = "idle"
    /\ Len(history) < MaxCalls
    /\ LET inferred == infer_next_project_number(cwd, numbering)
           c0 == [project_name |-> project_name, numbering |-> numbering,
                  template_dir |-> template_dir, project_number |-> None,
                  dst_name |-> None, created |-> FALSE]
           Raise(c, exc) ==
               /\ cwd' = CleanupListing(cwd, project_name)
               /\ result' = Finished(c, CleanupOutcome(cwd, project_name, exc), TRUE, None)
               /\ history' = Append(history, result')
               /\ call' = c
               /\ pc' = "idle"
               /\ UNCHANGED <<variables, queue, pending>>
       IN  /\ renderLog' = <<>>
           /\ popLog' = <<>>
           /\ IF template_dir # "template"
              THEN Raise(c0, "ValueError")
              ELSE IF inferred.raised
              THEN Raise(c0, "ValueError")
              ELSE LET project_number == inferred.value
                       dst_name ==
                           IF project_number # None
                           THEN The(project_number) \o <<"-">> \o project_name
                           ELSE project_name
                       c1 == [c0 EXCEPT !.project_number = project_number,
                                        !.dst_name = Some(dst_name)]
                   IN  IF DestinationExists(cwd, dst_name)
                       THEN \* except FileExistsError: print(...)
                            /\ result' = Finished(c1, "FileExistsError", FALSE, None)
                            /\ history' = Append(history, result')
                            /\ call' = c1
                            /\ pc' = "idle"
                            /\ UNCHANGED <<cwd, variables, queue, pending>>
                       ELSE /\ cwd' = [n \in (DOMAIN cwd) \cup {dst_name} |->
                                          IF n = dst_name THEN copytree(template)
                                          ELSE cwd[n]]
                            /\ call' = [c1 EXCEPT !.created = TRUE]
                            /\ variables' = MakeVariables(LoadContext(contextFile))
                            /\ queue' = <<<<>>>>
                            /\ pending' = {}
                            /\ pc' = "replace"
                            /\ UNCHANGED <<result, history>>
    /\ UNCHANGED <<template, no_replace, contextFile>>

\* replace: current_directory = queue.popleft(); start iterating over it.
ReplacePop ==
    /\ pc = "replace"
    /\ pending = {}
    /\ queue # <<>>
    /\ queue' = Tail(queue)
    /\ pending' = iterdir(DstTree, Head(queue))
    /\ popLog' = Append(popLog, Head(queue))
    /\ UNCHANGED <<cwd, template, no_replace, contextFile, pc, call, variables,
                   renderLog, result, history>>

\* One iteration of "for subpath in current_directory.iterdir()"; the order
\* of iterdir is arbitrary.  A failing render raises through make_project
\* into cli's handler.
ReplaceVisit ==
    /\ pc = "replace"
    /\ \E subpath \in pending :
        LET node == NodeAt(DstTree, subpath)
            dst == The(call.dst_name)
        IN  /\ pending' = pending \ {subpath}
            /\ LET todo == Visit(subpath, node.kind, PatternsOf(no_replace))
               IN  IF todo = "skip"
               THEN UNCHANGED <<cwd, pc, queue, renderLog, result, history>>
               ELSE IF todo = "render"
               THEN /\ renderLog' = Append(renderLog, subpath)
                    /\ IF RenderSucceeds(node.refs, variables)
                       THEN /\ cwd' = [cwd EXCEPT ![dst].tree =
                                          WriteFile(@, subpath, "rendered")]
                            /\ UNCHANGED <<pc, queue, result, history>>
                       ELSE LET written ==
                                    [cwd EXCEPT ![dst].tree =
                                        WriteFile(@, subpath, "truncated")]
                            IN  /\ cwd' = CleanupListing(written, call.project_name)
                                /\ result' = Finished(call,
                                       CleanupOutcome(written, call.project_name,
                                                      "RuntimeError"),
                                       TRUE, Some(<<dst>> \o subpath))
                                /\ history' = Append(history, result')
                                /\ pc' = "idle"
                                /\ UNCHANGED queue
               ELSE /\ queue' = Append(queue, subpath)
                    /\ UNCHANGED <<cwd, pc, renderLog, result, history>>
    /\ UNCHANGED <<template, no_replace, contextFile, call, variables, popLog>>

\* The while loop ends on an empty queue; make_project and cli return.
CliReturn ==
    /\ pc = "replace"
    /\ pending = {}
    /\ queue = <<>>
    /\ pc' = "idle"
    /\ result' = Finished(call, "ok", FALSE, None)
    /\ history' = Append(history, result')
    /\ UNCHANGED <<cwd, template, no_replace, contextFile, call, variables,
                   queue, pending, renderLog, popLog>>

Unstarted ==
    /\ pc = "idle"
    /\ call = NoCall
    /\ variables = {}
    /\ queue = <<>>
    /\ pending = {}
    /\ renderLog = <<>>
    /\ popLog = <<>>
    /\ result = NoResult
    /\ history = <<>>

\* The command surface over any working directory, one-file templates.
Init ==
    /\ cwd \in ListingsOver(InitNames, Cardinality(InitNames))
    /\ template \in TreesUpTo(1, Labels(ContextRefs))
    /\ no_replace \in {None, Some({<<"?">>})}
    /\ contextFile \in ContextFiles
    /\ Unstarted

Next ==
    \/ \E t \in TemplateDirs, p \in ProjectNames, k \in Numberings : CliStart(t, p, k)
    \/ ReplacePop
    \/ ReplaceVisit
    \/ CliReturn

Spec == Init /\ [][Next]_vars

\* make_project over any template tree and skip-pattern set, into an empty
\* working directory.
InitReplace ==
    /\ cwd = <<>>
    /\ template \in TreesUpTo(MaxEntries, Labels(ProjectRefs))
    /\ no_replace \in PatternSets
    /\ contextFile = None
    /\ Unstarted

NextReplace ==
    \/ CliStart("template", <<"x">>, None)
    \/ ReplacePop
    \/ ReplaceVisit
    \/ CliReturn

SpecReplace == InitReplace /\ [][NextReplace]_vars

\* Nothing suspends replace: its loop keeps taking steps until it returns.
FairReplace == SpecReplace /\ WF_vars(ReplacePop \/ ReplaceVisit \/ CliReturn)

\* infer_next_project_number applied to any listing.
Infer(numbering) ==
    /\ pc = "idle"
    /\ LET inferred == infer_next_project_number(cwd, numbering)
           c == [NoCall EXCEPT !.numbering = numbering,
                               !.project_number =
                                   IF inferred.raised THEN None ELSE inferred.value]
       IN  /\ call' = c
           /\ result' = Finished(c, IF inferred.raised THEN "ValueError" ELSE "ok",
                                 inferred.raised, None)
    /\ UNCHANGED <<cwd, template, no_replace, contextFile, pc, variables, queue,
                   pending, renderLog, popLog, history>>

InitInfer ==
    /\ cwd \in ListingsOver(ListingNames, MaxListing)
    /\ template = {}
    /\ no_replace = None
    /\ contextFile = None
    /\ Unstarted

NextInfer == \E k \in Numberings : Infer(k)

SpecInfer == InitInfer /\ [][NextInfer]_vars

----------------------------------------------------------------------------
(* Vocabulary of the properties.                                           *)

Range(seq) == {seq[i] : i \in 1..Len(seq)}

Occurrences(seq, x) == Cardinality({i \in 1..Len(seq) : seq[i] = x})

\* A call of cli starts in this step (it may also end in it).
Starts == pc = "idle" /\ (pc' = "replace" \/ Len(history') > Len(history))

\* The base name matches one of the skip patterns (glob semantics).
NameMatches(name) == \E pattern \in PatternsOf(no_replace) : fnmatch(name, pattern)

\* Some directory above path p has a name that matches a skip pattern.
UnderMatchingDirectory(p) == \E i \in 1..(Len(p) - 1) : NameMatches(p[i])

FilePaths == {n.path : n \in {m \in template : m.kind = "file"}}

DirectoryPaths == {n.path : n \in {m \in template : m.kind = "dir"}}

\* The last invocation ran replace to its end and returned.
Returned == pc = "idle" /\ history # <<>> /\ result.outcome = "ok"

RECURSIVE Pow10(_)
Pow10(k) == IF k = 0 THEN 1 ELSE 10 * Pow10(k - 1)

----------------------------------------------------------------------------
(* C1.  When make_project fails with an error other than destination-      *)
(* exists after it created the destination directory, that directory no   *)
(* longer exists when cli re-raises the error.                             *)
C1_NoPartialDestination ==
    (pc = "idle" /\ result.reraised /\ result.created)
        => The(result.dst_name) \notin DOMAIN cwd

(* C2.  A call whose template directory does not exist fails, the error    *)
(* being reported to the caller, and leaves every entry of the working     *)
(* directory as it was: nothing is created, changed or removed.            *)
C2_MissingTemplateChangesNothing ==
    [][(Starts /\ call'.template_dir # "template")
          => (result'.reraised /\ cwd' = cwd)]_vars

(* C3.  Repeating a creation that succeeded, with the same destination     *)
(* name: the second call ends with FileExistsError, which cli prints and   *)
(* does not re-raise, and the working directory, the first call's tree     *)
(* included, is unchanged; nothing is rendered.                            *)
C3_SecondCallRefused ==
    [][(/\ Starts
        /\ history # <<>>
        /\ Last(history).outcome = "ok"
        /\ call'.template_dir = "template"
        /\ call'.project_name = Last(history).project_name
        /\ call'.dst_name = Last(history).dst_name)
          => (/\ pc' = "idle"
              /\ result'.outcome = "FileExistsError"
              /\ ~result'.reraised
              /\ cwd' = cwd
              /\ renderLog' = <<>>)]_vars

C3_Witness ==
    /\ Len(history) = 2
    /\ history[1].outcome = "ok"
    /\ history[2].outcome = "FileExistsError"
    /\ history[2].dst_name = history[1].dst_name
    /\ \E n \in cwd[The(history[1].dst_name)].tree : n.content = "rendered"

----------------------------------------------------------------------------
(* The reference result of number inference, written from its statement.   *)

RefValue(name, k) ==
    LET d(i) == CHOOSE v \in 0..9 : DecimalChars[v + 1] = name[i]
        RECURSIVE Upto(_)
        Upto(i) == IF i = 0 THEN 0 ELSE 10 * Upto(i - 1) + d(i)
    IN  Upto(k)

RefQualifies(listing, name, k) ==
    /\ listing[name].kind = "dir"
    /\ Len(name) >= k
    /\ \A i \in 1..k : name[i] \in Range(DecimalChars)

RefNextNumber(listing, numbering) ==
    IF numbering = None THEN None
    ELSE LET k == The(numbering)
             values == {RefValue(n, k) :
                          n \in {m \in DOMAIN listing : RefQualifies(listing, m, k)}}
             next == IF values = {} THEN 1
                     ELSE (CHOOSE v \in values : \A w \in values : w <= v) + 1
             digits == DecimalString(next)
         IN  Some([i \in 1..(IF Len(digits) >= k THEN Len(digits) ELSE k) |->
                      IF Len(digits) >= k THEN digits[i]
                      ELSE IF i <= k - Len(digits) THEN "0"
                      ELSE digits[i - (k - Len(digits))]])

(* C4.  infer_next_project_number returns the reference result: None when  *)
(* the width is absent; otherwise, over the child directories whose names  *)
(* have at least k characters and whose first k characters are decimal     *)
(* digits, max + 1 (1 when there is none), zero-padded to k digits.        *)
C4_InferenceMatchesReference ==
    (result # NoResult)
        => (/\ ~result.reraised
            /\ result.project_number = RefNextNumber(cwd, result.numbering))

\* The same, over the listings that hold decimal digits only.
C4_OnDecimalListings ==
    (result # NoResult /\ \A n \in DOMAIN cwd : SuperscriptTwo \notin Range(n))
        => (/\ ~result.reraised
            /\ result.project_number = RefNextNumber(cwd, result.numbering))

----------------------------------------------------------------------------
(* C5.  Every file of the template is copied; a file whose base name       *)
(* matches a skip pattern is never passed to render; when replace returns, *)
(* every file whose base name and ancestor directories match no pattern    *)
(* has been passed to render, which with no pattern is every file.         *)
C5_SkipPatterns ==
    /\ pc = "replace" => Paths(DstTree) = Paths(template)
    /\ \A p \in Range(renderLog) : p \in FilePaths /\ ~NameMatches(Last(p))
    /\ Returned =>
          \A p \in FilePaths :
              (~NameMatches(Last(p)) /\ ~UnderMatchingDirectory(p))
                  => p \in Range(renderLog)
    /\ (Returned /\ PatternsOf(no_replace) = {}) => Range(renderLog) = FilePaths

C5_Witness ==
    /\ Returned
    /\ \E p \in FilePaths, q \in FilePaths :
          /\ Len(p) = 2 /\ Len(q) = 2
          /\ NameMatches(Last(p)) /\ p \notin Range(renderLog)
          /\ NodeAt(DstTree, p).content = "template"
          /\ q \in Range(renderLog)

----------------------------------------------------------------------------
(* C6 as claimed.  A directory whose name matches a skip pattern is still  *)
(* descended into: when replace returns, every directory has been dequeued *)
(* and every file whose own base name matches no pattern has been          *)
(* rendered.                                                               *)
C6_MatchingDirectoryDescended ==
    Returned =>
        /\ DirectoryPaths \subseteq Range(popLog)
        /\ \A p \in FilePaths : ~NameMatches(Last(p)) => p \in Range(renderLog)

(* C6 as amended.  A directory whose name matches a skip pattern is not    *)
(* descended into: it is never enqueued or dequeued, and no file below it  *)
(* is passed to render, whatever the file's own name.                      *)
C6_MatchingDirectoryPruned ==
    /\ \A d \in Range(popLog) \cup Range(queue) :
          d # <<>> => (~NameMatches(Last(d)) /\ ~UnderMatchingDirectory(d))
    /\ \A p \in Range(renderLog) : ~UnderMatchingDirectory(p)
    /\ Returned =>
          \A d \in DirectoryPaths :
              (~NameMatches(Last(d)) /\ ~UnderMatchingDirectory(d))
                  => d \in Range(popLog)

C6_Witness ==
    /\ Returned
    /\ \E d \in DirectoryPaths, p \in FilePaths :
          /\ NameMatches(Last(d))
          /\ Len(p) = Len(d) + 1 /\ SubSeq(p, 1, Len(d)) = d
          /\ ~NameMatches(Last(p))
          /\ p \notin Range(renderLog)
          /\ d \notin Range(popLog)

----------------------------------------------------------------------------
(* C7 as claimed.  With a configuration file, the mapping handed to render *)
(* holds the loaded mapping under the outer key equal to the file's stem,  *)
(* next to "project": course.instructor resolves.                          *)
C7_ContextUnderStem ==
    (pc = "replace" /\ contextFile # None) =>
        /\ {p[1] : p \in variables} = {The(contextFile).stem, "project"}
        /\ \A key \in The(contextFile).keys :
              (<<The(contextFile).stem>> \o key) \in variables

(* C7 as amended.  With a configuration file, the mapping handed to render *)
(* has the outer keys "context" and "project"; the loaded mapping is held  *)
(* under context.<stem>: context.course.instructor resolves, and           *)
(* course.instructor is undefined.                                         *)
C7_ContextUnderContextKey ==
    (pc = "replace" /\ contextFile # None) =>
        /\ {p[1] : p \in variables} = {"context", "project"}
        /\ \A key \in The(contextFile).keys :
              /\ (<<"context", The(contextFile).stem>> \o key) \in variables
              /\ (<<The(contextFile).stem>> \o key) \notin variables

C7_Witness ==
    /\ Returned
    /\ contextFile # None
    /\ \E n \in cwd[The(result.dst_name)].tree :
          /\ n.refs = {<<"context", "course", "instructor">>}
          /\ n.content = "rendered"

----------------------------------------------------------------------------
(* C8.  Rendering is strict.  A file passed to render whose references all *)
(* resolve in the variable mapping is written; one with a reference that   *)
(* does not resolve is not written with a blank: render fails, the error   *)
(* re-raised by cli carries that file's path, and it is the last file      *)
(* passed to render by the call.                                           *)
C8_StrictRendering ==
    /\ \A i \in 1..Len(renderLog) :
          LET p == renderLog[i]
              defined == NodeAt(template, p).refs \subseteq variables
              failedHere == /\ pc = "idle"
                            /\ i = Len(renderLog)
                            /\ result.outcome = "RuntimeError"
                            /\ result.reraised
                            /\ result.error_path = Some(<<The(result.dst_name)>> \o p)
          IN  defined <=> ~failedHere
    /\ pc = "replace" =>
          \A n \in DstTree :
              /\ n.content = "rendered" <=> n.path \in Range(renderLog)
              /\ n.content = "rendered" => n.refs \subseteq variables

C8_Witness ==
    /\ pc = "idle"
    /\ result.outcome = "RuntimeError"
    /\ Len(renderLog) = 2
    /\ \E p \in FilePaths : p \notin Range(renderLog) /\ ~NameMatches(Last(p))

----------------------------------------------------------------------------
(* No directory is enqueued or dequeued twice and no file is passed to     *)
(* render twice; replace returns on an empty queue, and with no skip       *)
(* pattern every entry has then been visited exactly once.                 *)
C9_VisitedOnce ==
    /\ \A d \in Range(popLog) : Occurrences(popLog, d) = 1
    /\ \A d \in Range(queue) : Occurrences(queue, d) = 1 /\ d \notin Range(popLog)
    /\ \A p \in Range(renderLog) : Occurrences(renderLog, p) = 1
    /\ Returned => (queue = <<>> /\ pending = {})
    /\ (Returned /\ PatternsOf(no_replace) = {}) =>
          /\ Range(popLog) = DirectoryPaths \cup {<<>>}
          /\ Range(renderLog) = FilePaths

(* C9.  replace's traversal ends on every tree, whatever the order of the   *)
(* listings; when it returns the work queue is empty; every directory is   *)
(* enqueued and dequeued at most once and every file is passed to render   *)
(* at most once.                                                           *)
C9_Traversal == [] C9_VisitedOnce /\ (pc = "replace" ~> pc = "idle")

C9_Witness ==
    /\ Returned
    /\ Len(popLog) = 3
    /\ Len(renderLog) = 1

----------------------------------------------------------------------------
(* C10.  Numbers assigned by successive successful calls with one width.   *)

NumberOf(rec) == The(int(The(rec.project_number)))

\* Every call so far succeeded, and all were numbered with the same width.
SuccessfulSameWidth ==
    /\ history # <<>>
    /\ history[1].numbering # None
    /\ \A i \in 1..Len(history) :
          history[i].outcome = "ok" /\ history[i].numbering = history[1].numbering

(* C10 as claimed.  Each new project's number is strictly greater than the *)
(* number of every project created earlier, also past 10^K.                *)
C10_StrictlyIncreasing ==
    SuccessfulSameWidth =>
        \A i \in 1..Len(history), j \in 1..Len(history) :
            i < j => NumberOf(history[i]) < NumberOf(history[j])

(* C10 as amended.  Each new project's number is strictly greater than     *)
(* every earlier number that fits in K digits (is below 10^K); a number    *)
(* that reached 10^K can be assigned again.                                *)
C10_IncreasingBelowOverflow ==
    SuccessfulSameWidth =>
        \A i \in 1..Len(history), j \in 1..Len(history) :
            (i < j /\ NumberOf(history[i]) < Pow10(The(history[1].numbering)))
                => NumberOf(history[i]) < NumberOf(history[j])

C10_Witness ==
    /\ SuccessfulSameWidth
    /\ Len(history) = 2
    /\ NumberOf(history[1]) < Pow10(The(history[1].numbering))
    /\ NumberOf(history[2]) = NumberOf(history[1]) + 1
    /\ history[1].project_name # history[2].project_name

====
